---- MODULE Spec2Model ----
(***************************************************************************)
(* Model of watermark_remover.py: the per-frame patcher patch_frame, the   *)
(* parallel batch runner patch_frames and the phases of main.              *)
(***************************************************************************)
EXTENDS Integers, Sequences, FiniteSets, TLC

VARIABLES
    cfg,            \* the six geometry parameters of the run
    files,          \* tmpdir: frame index -> content of frame_<index>.png
    orig,           \* history: the content of each frame file before any patch
    calls,          \* history: one record per direct call of patch_frame
    pc,             \* position of main
    exitCode,       \* exit status of the process, NoExit while it runs
    tools_found,    \* ffmpeg and ffprobe answer -version
    input_is_file,  \* input_path.is_file()
    ffmpeg,         \* state of the extraction subprocess
    n_jobs,         \* args.jobs
    frame_files,    \* sorted listing of tmpdir taken by patch_frames
    queue,          \* tasks of process_map not yet handed to a worker
    worker,         \* worker process -> its task, position and frame buffer
    results,        \* frame -> value returned by its task, Pending before
    reported,       \* the tally printed by patch_frames, None before
    outputOk,       \* output_path exists with size > 0
    started,        \* history: the phases main has entered
    dispatchCount,  \* history: frame -> number of tasks created for it
    access,         \* history: frame -> workers that read or wrote its file
    batchSteps      \* history: steps taken by the workers of the pool

vars == <<cfg, files, orig, calls, pc, exitCode, tools_found, input_is_file,
          ffmpeg, n_jobs, frame_files, queue, worker, results, reported,
          outputOk, started, dispatchCount, access, batchSteps>>

patchVars == <<cfg, files, orig, calls>>
runVars == <<pc, exitCode, tools_found, input_is_file, ffmpeg, n_jobs,
             frame_files, queue, worker, results, reported, outputOk, started,
             dispatchCount, access, batchSteps>>

(* ---------------------------- bounds ---------------------------------- *)
MaxPatchWidth == 2
MaxPatchHeight == 3
MaxPatchX == 1
MaxPatchY == 1
MaxMirrorHeight == 2
MaxMirrorOffset == 2
MaxFrameHeight == 5
MaxFrameWidth == 4
MaxCalls == 2
MaxFrames == 3
MaxWorkers == 2

(* cv2.imread(path) without flags decodes to 3 channels of 8 bits *)
Channels == 3

(* Python's None: where a frame buffer or a tally is expected, and where  *)
(* the rectangles are expected                                            *)
None == <<>>
NoRects == [computed |-> FALSE]

Max(a, b) == IF a > b THEN a ELSE b
Min(a, b) == IF a < b THEN a ELSE b

(* ------------------------- frames and files --------------------------- *)
(* A decoded frame is a sequence of rows, a row a sequence of pixels, a   *)
(* pixel a sequence of Channels intensities (numpy array of shape h,w,3). *)
(* A frame file holds the dimensions and the row-major flattened samples. *)

Shape0(a) == Len(a)
Shape1(a) == IF Len(a) = 0 THEN 0 ELSE Len(a[1])

CorruptFile == [ok |-> FALSE, height |-> 0, width |-> 0, data |-> <<>>]

imread(file) ==
    IF ~file.ok THEN None
    ELSE [r \in 1..file.height |->
            [c \in 1..file.width |->
               [k \in 1..Channels |->
                  file.data[((r - 1) * file.width + (c - 1)) * Channels + k]]]]

(* mutant: the channels written in reverse order (BGR taken for RGB) *)
imwrite_SwapChannels(frame) ==
    LET h == Shape0(frame)
        w == Shape1(frame)
    IN [ok |-> TRUE, height |-> h, width |-> w,
        data |-> [i \in 1..(h * w * Channels) |->
                    frame[((i - 1) \div (w * Channels)) + 1]
                         [(((i - 1) % (w * Channels)) \div Channels) + 1]
                         [Channels - ((i - 1) % Channels)]]]

imwrite(frame) ==
    LET h == Shape0(frame)
        w == Shape1(frame)
    IN [ok |-> TRUE, height |-> h, width |-> w,
        data |-> [i \in 1..(h * w * Channels) |->
                    frame[((i - 1) \div (w * Channels)) + 1]
                         [(((i - 1) % (w * Channels)) \div Channels) + 1]
                         [((i - 1) % Channels) + 1]]]

(* numpy basic slicing a[lo:hi] on an axis of length n: negative indices  *)
(* count from the end, then both ends are clipped to 0..n                 *)
SliceIndex(i, n) == IF i < 0 THEN Max(i + n, 0) ELSE Min(i, n)

Slice2D(a, y0, y1, x0, x1) ==
    LET h  == Shape0(a)
        w  == Shape1(a)
        ya == SliceIndex(y0, h)
        yb == SliceIndex(y1, h)
        xa == SliceIndex(x0, w)
        xb == SliceIndex(x1, w)
    IN [i \in 1..Max(yb - ya, 0) |->
          [j \in 1..Max(xb - xa, 0) |-> a[ya + i][xa + j]]]

(* mutant: the mirror source copied without the flip *)
flip0_NoFlip(a) == a

(* cv2.flip(src, 0): a new array with the row order reversed *)
flip0(a) == [i \in 1..Len(a) |-> a[Len(a) + 1 - i]]

(* cv2.vconcat([a, b]): a new array, the rows of a followed by the rows of b *)
vconcat(a, b) == a \o b

(* mutant: the patch written one row too high *)
AssignSlice_OneRowUp(frame, y0, y1, x0, x1, patch) ==
    [r \in 1..Shape0(frame) |->
       [c \in 1..Shape1(frame) |->
          IF r > y0 - 1 /\ r <= y1 - 1 /\ c > x0 /\ c <= x1
          THEN patch[r - y0 + 1][c - x0]
          ELSE frame[r][c]]]

(* frame[y0:y1, x0:x1] = patch, for a patch of the slice's shape *)
AssignSlice(frame, y0, y1, x0, x1, patch) ==
    [r \in 1..Shape0(frame) |->
       [c \in 1..Shape1(frame) |->
          IF r > y0 /\ r <= y1 /\ c > x0 /\ c <= x1
          THEN patch[r - y0][c - x0]
          ELSE frame[r][c]]]

(* ------------------------------ geometry ------------------------------ *)
wm_y_start(p, height) == height - (p.patch_y + p.patch_height)
wm_y_end(p, height) == height - p.patch_y
wm_x_start(p) == p.patch_x
wm_x_end(p) == p.patch_x + p.patch_width

mirror_src_y_start(p, height) == wm_y_start(p, height) - p.mirror_offset
(* mutant: the mirror source ends mirror_offset rows above the target *)
mirror_src_y_end_AtOffset(p, height) == wm_y_start(p, height) - p.mirror_offset

mirror_src_y_end(p, height) == wm_y_start(p, height) - p.mirror_offset + p.mirror_height
mirror_src_x_start(p) == p.patch_x
mirror_src_x_end(p) == p.patch_x + p.patch_width

(* mutant: the adjacent part takes the whole patch height *)
adjacent_patch_height_Whole(p) == p.patch_height

adjacent_patch_height(p) == p.patch_height - p.mirror_height
adj_src_y_start(p, height) == wm_y_end(p, height) - adjacent_patch_height(p)
adj_src_y_end(p, height) == wm_y_end(p, height)
adj_src_x_start(p) == p.patch_x + p.patch_width
adj_src_x_end(p) == p.patch_x + 2 * p.patch_width

Rect(t, b, l, r) == [top |-> t, bottom |-> b, left |-> l, right |-> r]

(* the three rectangles patch_frame computes for a frame of this height *)
Rects(p, height) ==
    [target |-> Rect(wm_y_start(p, height), wm_y_end(p, height),
                     wm_x_start(p), wm_x_end(p)),
     mirror |-> Rect(mirror_src_y_start(p, height), mirror_src_y_end(p, height),
                     mirror_src_x_start(p), mirror_src_x_end(p)),
     adjacent |-> Rect(adj_src_y_start(p, height), adj_src_y_end(p, height),
                       adj_src_x_start(p), adj_src_x_end(p))]

(* the early return on frames smaller than the patch *)
TooSmall(p, height, width) ==
    height < p.patch_height \/ width < p.patch_width + p.patch_x

(* the defensive check of the coordinates *)
CoordsOK(p, height, width) ==
    /\ 0 <= mirror_src_y_start(p, height)
    /\ mirror_src_y_start(p, height) < mirror_src_y_end(p, height)
    /\ mirror_src_y_end(p, height) <= height
    /\ 0 <= mirror_src_x_start(p)
    /\ mirror_src_x_start(p) < mirror_src_x_end(p)
    /\ mirror_src_x_end(p) <= width
    /\ 0 <= adj_src_y_start(p, height)
    /\ adj_src_y_start(p, height) < adj_src_y_end(p, height)
    /\ adj_src_y_end(p, height) <= height
    /\ 0 <= adj_src_x_start(p)
    /\ adj_src_x_start(p) < adj_src_x_end(p)
    /\ adj_src_x_end(p) <= width
    /\ 0 <= wm_y_start(p, height)
    /\ wm_y_start(p, height) < wm_y_end(p, height)
    /\ wm_y_end(p, height) <= height
    /\ 0 <= wm_x_start(p)
    /\ wm_x_start(p) < wm_x_end(p)
    /\ wm_x_end(p) <= width

(* ------------------------------ patcher ------------------------------- *)
(* The body of patch_frame once the frame is decoded.  The result holds   *)
(* the return value, whether cv2.imwrite was called, the frame buffer at  *)
(* return and the rectangles computed (None when the function returned    *)
(* before computing them).                                                *)
(* mutant: the frame buffer is written back before the rejection *)
Rejected_AfterWrite(frame, rects) ==
    [ret |-> FALSE, wrote |-> TRUE, frame |-> frame, rects |-> rects]

Rejected(frame, rects) ==
    [ret |-> FALSE, wrote |-> FALSE, frame |-> frame, rects |-> rects]

patch_decoded(p, frame) ==
    LET height == Shape0(frame)
        width  == Shape1(frame)
        rects  == Rects(p, height)
        mirrored_content ==
            Slice2D(frame, mirror_src_y_start(p, height), mirror_src_y_end(p, height),
                    mirror_src_x_start(p), mirror_src_x_end(p))
        mirrored_content_flipped == flip0(mirrored_content)
        adjacent_content ==
            Slice2D(frame, adj_src_y_start(p, height), adj_src_y_end(p, height),
                    adj_src_x_start(p), adj_src_x_end(p))
        patch == vconcat(mirrored_content_flipped, adjacent_content)
    IN  IF TooSmall(p, height, width) THEN Rejected(frame, NoRects)
        ELSE IF ~CoordsOK(p, height, width) THEN Rejected(frame, rects)
        ELSE IF Shape0(mirrored_content_flipped) # p.mirror_height
             THEN Rejected(frame, rects)
        ELSE IF Shape0(adjacent_content) # adjacent_patch_height(p)
             THEN Rejected(frame, rects)
        ELSE IF \/ Shape1(mirrored_content_flipped) # p.patch_width
                \/ Shape1(adjacent_content) # p.patch_width
             THEN Rejected(frame, rects)
        ELSE IF Shape0(patch) # p.patch_height \/ Shape1(patch) # p.patch_width
             THEN Rejected(frame, rects)
        ELSE [ret |-> TRUE, wrote |-> TRUE,
              frame |-> AssignSlice(frame, wm_y_start(p, height), wm_y_end(p, height),
                                    wm_x_start(p), wm_x_end(p), patch),
              rects |-> rects]

(* patch_frame on the content of the file at path: the result of          *)
(* patch_decoded plus the content of the file when the function returns   *)
patch_frame(p, file) ==
    LET frame == imread(file)
        res   == IF frame = None THEN Rejected(None, NoRects) ELSE patch_decoded(p, frame)
    IN [ret |-> res.ret, wrote |-> res.wrote, rects |-> res.rects,
        file |-> IF res.wrote THEN imwrite(res.frame) ELSE file]

(* ------------------------- inputs of the model ------------------------ *)
(* A frame whose samples are pairwise distinct: patch_frame only copies   *)
(* samples, so what it does to this frame it does to every frame.         *)
LabelledFrame(h, w, seed) ==
    [r \in 1..h |-> [c \in 1..w |-> [k \in 1..Channels |->
        seed + ((r - 1) * w + (c - 1)) * Channels + k]]]

(* argparse accepts any integer for the six parameters *)
Lowest == 0 - 1

Configs ==
    [patch_width : 0..MaxPatchWidth, patch_height : 0..MaxPatchHeight,
     patch_x : Lowest..MaxPatchX, patch_y : Lowest..MaxPatchY,
     mirror_height : 0..MaxMirrorHeight, mirror_offset : Lowest..MaxMirrorOffset]

FrameFiles ==
    {CorruptFile} \cup
    {imwrite(LabelledFrame(h, w, 0)) : h \in 1..MaxFrameHeight, w \in 1..MaxFrameWidth}

NoExit == 0 - 1
Pending == [done |-> FALSE, value |-> FALSE]
Returned(v) == [done |-> TRUE, value |-> v]
Workers == 1..MaxWorkers
IdleWorker == [task |-> 0, at |-> "idle", frame |-> None]

(* -------------------- direct calls of patch_frame --------------------- *)
PatchInit ==
    /\ cfg \in Configs
    /\ \E f \in FrameFiles : files = <<f>>
    /\ orig = files
    /\ calls = <<>>
    /\ pc = "idle"
    /\ exitCode = NoExit
    /\ tools_found = TRUE
    /\ input_is_file = TRUE
    /\ ffmpeg = "idle"
    /\ n_jobs = 1
    /\ frame_files = <<>>
    /\ queue = <<>>
    /\ worker = [w \in Workers |-> IdleWorker]
    /\ results = <<>>
    /\ reported = None
    /\ outputOk = FALSE
    /\ started = {}
    /\ dispatchCount = <<>>
    /\ access = <<>>
    /\ batchSteps = 0

CallPatchFrame ==
    /\ Len(calls) < MaxCalls
    /\ LET r == patch_frame(cfg, files[1])
       IN /\ files' = [files EXCEPT ![1] = r.file]
          /\ calls' = Append(calls, [ret |-> r.ret, wrote |-> r.wrote,
                                     rects |-> r.rects, before |-> files[1],
                                     after |-> r.file])
    /\ UNCHANGED <<cfg, orig>>
    /\ UNCHANGED runVars

PatchNext == CallPatchFrame

PatchSpec == PatchInit /\ [][PatchNext]_vars

(* ------------------------------ main ---------------------------------- *)
RunFrameHeight == 3
RunFrameWidth == 2

(* the three kinds of file ffmpeg may leave as frame number i: unreadable, *)
(* a full frame, a truncated frame smaller than the patch                  *)
ExtractedFiles(i) ==
    {CorruptFile,
     imwrite(LabelledFrame(RunFrameHeight, RunFrameWidth, i * 100)),
     imwrite(LabelledFrame(1, 1, i * 100))}

RunConfigs ==
    {[patch_width |-> 1, patch_height |-> 2, patch_x |-> 0, patch_y |-> 0,
      mirror_height |-> 1, mirror_offset |-> mo] : mo \in 0..1}

RunInit ==
    /\ cfg \in RunConfigs
    /\ files = <<>>
    /\ orig = <<>>
    /\ calls = <<>>
    /\ pc = "check_ffmpeg"
    /\ exitCode = NoExit
    /\ tools_found \in BOOLEAN
    /\ input_is_file \in BOOLEAN
    /\ ffmpeg = "idle"
    /\ n_jobs \in 1..MaxWorkers
    /\ frame_files = <<>>
    /\ queue = <<>>
    /\ worker = [w \in Workers |-> IdleWorker]
    /\ results = <<>>
    /\ reported = None
    /\ outputOk = FALSE
    /\ started = {}
    /\ dispatchCount = <<>>
    /\ access = <<>>
    /\ batchSteps = 0

(* check_ffmpeg(): sys.exit(1) when a tool does not answer *)
check_ffmpeg ==
    /\ pc = "check_ffmpeg"
    /\ IF tools_found
       THEN pc' = "check_input" /\ UNCHANGED exitCode
       ELSE pc' = "exit" /\ exitCode' = 1
    /\ UNCHANGED <<cfg, files, orig, calls, tools_found, input_is_file, ffmpeg,
                   n_jobs, frame_files, queue, worker, results, reported,
                   outputOk, started, dispatchCount, access, batchSteps>>

(* if not input_path.is_file(): sys.exit(1) *)
check_input ==
    /\ pc = "check_input"
    /\ IF input_is_file
       THEN pc' = "extract_frames" /\ UNCHANGED exitCode
       ELSE pc' = "exit" /\ exitCode' = 1
    /\ UNCHANGED <<cfg, files, orig, calls, tools_found, input_is_file, ffmpeg,
                   n_jobs, frame_files, queue, worker, results, reported,
                   outputOk, started, dispatchCount, access, batchSteps>>

(* extract_frames: subprocess.run starts ffmpeg *)
extract_frames ==
    /\ pc = "extract_frames"
    /\ pc' = "extract_wait"
    /\ ffmpeg' = "running"
    /\ started' = started \cup {"extract"}
    /\ UNCHANGED <<cfg, files, orig, calls, exitCode, tools_found, input_is_file,
                   n_jobs, frame_files, queue, worker, results, reported,
                   outputOk, dispatchCount, access, batchSteps>>

(* the ffmpeg subprocess writes the next frame_%05d.png *)
ffmpeg_writes_frame ==
    /\ ffmpeg = "running"
    /\ Len(files) < MaxFrames
    /\ \E f \in ExtractedFiles(Len(files) + 1) :
          /\ files' = Append(files, f)
          /\ orig' = Append(orig, f)
    /\ UNCHANGED <<cfg, calls, pc, exitCode, tools_found, input_is_file, ffmpeg,
                   n_jobs, frame_files, queue, worker, results, reported,
                   outputOk, started, dispatchCount, access, batchSteps>>

(* the ffmpeg subprocess ends, with status 0 or not *)
ffmpeg_exits ==
    /\ ffmpeg = "running"
    /\ \E status \in {"exit0", "exit1"} : ffmpeg' = status
    /\ UNCHANGED <<cfg, files, orig, calls, pc, exitCode, tools_found,
                   input_is_file, n_jobs, frame_files, queue, worker, results,
                   reported, outputOk, started, dispatchCount, access, batchSteps>>

(* mutant: the subprocess is started and not waited for *)
subprocess_run_returns_NoWait == TRUE

(* subprocess.run returns when the child has ended *)
subprocess_run_returns == ffmpeg # "running"

(* extract_frames returns; check=True raises CalledProcessError on a       *)
(* non-zero status, which nothing catches                                  *)
extract_returns ==
    /\ pc = "extract_wait"
    /\ subprocess_run_returns
    /\ IF ffmpeg = "exit1"
       THEN pc' = "exit" /\ exitCode' = 1
       ELSE pc' = "get_fps" /\ UNCHANGED exitCode
    /\ UNCHANGED <<cfg, files, orig, calls, tools_found, input_is_file, ffmpeg,
                   n_jobs, frame_files, queue, worker, results, reported,
                   outputOk, started, dispatchCount, access, batchSteps>>

(* get_fps: float() of the ffprobe output raises when it is no number      *)
get_fps ==
    /\ pc = "get_fps"
    /\ \E parsed \in BOOLEAN :
          IF parsed
          THEN pc' = "patch_frames" /\ UNCHANGED exitCode
          ELSE pc' = "exit" /\ exitCode' = 1
    /\ UNCHANGED <<cfg, files, orig, calls, tools_found, input_is_file, ffmpeg,
                   n_jobs, frame_files, queue, worker, results, reported,
                   outputOk, started, dispatchCount, access, batchSteps>>

(* sorted([f for f in os.listdir(tmpdir) if f.endswith(".png")]) *)
listdir_png(dir) == [i \in 1..Len(dir) |-> i]

(* patch_frames up to the call of process_map: no frames, no tally *)
patch_frames ==
    /\ pc = "patch_frames"
    /\ started' = started \cup {"patch"}
    /\ LET listing == listdir_png(files)
           total   == Len(listing)
       IN /\ frame_files' = listing
          /\ IF total = 0
             THEN /\ pc' = "assemble_video"
                  /\ UNCHANGED <<queue, results, dispatchCount, access>>
             ELSE /\ pc' = "process_map"
                  /\ queue' = listing
                  /\ results' = [f \in 1..total |-> Pending]
                  /\ dispatchCount' = [f \in 1..total |-> 0]
                  /\ access' = [f \in 1..total |-> {}]
    /\ UNCHANGED <<cfg, files, orig, calls, exitCode, tools_found, input_is_file,
                   ffmpeg, n_jobs, worker, reported, outputOk, batchSteps>>

(* mutant: the task handed out stays in the queue *)
remaining_tasks_KeepHead(q) == q

(* chunksize=1: one frame leaves the queue per dispatch *)
remaining_tasks(q) == Tail(q)

(* max_workers=n_jobs: the pool has n_jobs workers, a free one is handed *)
(* the next task while tasks remain                                      *)
dispatch_ready(w) == w <= n_jobs /\ worker[w].at = "idle" /\ queue # <<>>

(* a free worker of the pool takes the next task *)
dispatch(w) ==
    /\ dispatch_ready(w)
    /\ worker' = [worker EXCEPT ![w] = [task |-> Head(queue), at |-> "imread",
                                        frame |-> None]]
    /\ dispatchCount' = [dispatchCount EXCEPT ![Head(queue)] = @ + 1]
    /\ queue' = remaining_tasks(queue)
    /\ UNCHANGED <<cfg, files, orig, calls, pc, exitCode, tools_found,
                   input_is_file, ffmpeg, n_jobs, frame_files, results, reported,
                   outputOk, started, access>>
    /\ batchSteps' = batchSteps + 1

(* cv2.imread gives None for a path that does not exist *)
imread_path(dir, f) == IF f \in DOMAIN dir THEN imread(dir[f]) ELSE None

(* cv2.imwrite into a directory that does not exist writes nothing *)
imwrite_path(dir, f, frame) ==
    IF f \in DOMAIN dir THEN [dir EXCEPT ![f] = imwrite(frame)] ELSE dir

(* patch_frame in a worker: frame = cv2.imread(path) *)
worker_imread(w) ==
    /\ worker[w].at = "imread"
    /\ worker' = [worker EXCEPT ![w].frame = imread_path(files, worker[w].task),
                                ![w].at = "patch"]
    /\ access' = [access EXCEPT ![worker[w].task] = @ \cup {w}]
    /\ UNCHANGED <<cfg, files, orig, calls, pc, exitCode, tools_found,
                   input_is_file, ffmpeg, n_jobs, frame_files, queue, results,
                   reported, outputOk, started, dispatchCount>>
    /\ batchSteps' = batchSteps + 1

(* patch_frame in a worker, from the None test to its return: the checks,  *)
(* the patch, cv2.imwrite, and the result handed back to process_map       *)
worker_patch(w) ==
    /\ worker[w].at = "patch"
    /\ LET f   == worker[w].task
           res == IF worker[w].frame = None THEN Rejected(None, NoRects)
                  ELSE patch_decoded(cfg, worker[w].frame)
       IN /\ files' = IF res.wrote THEN imwrite_path(files, f, res.frame) ELSE files
          /\ access' = IF res.wrote THEN [access EXCEPT ![f] = @ \cup {w}]
                       ELSE access
          /\ results' = [results EXCEPT ![f] = Returned(res.ret)]
    /\ worker' = [worker EXCEPT ![w] = IdleWorker]
    /\ UNCHANGED <<cfg, orig, calls, pc, exitCode, tools_found, input_is_file,
                   ffmpeg, n_jobs, frame_files, queue, reported, outputOk,
                   started, dispatchCount>>
    /\ batchSteps' = batchSteps + 1

(* mutant: process_map returns once every task is handed out *)
process_map_returns_AllDispatched == queue = <<>>

(* process_map returns the list of results once every task has returned *)
process_map_returns == \A f \in DOMAIN results : results[f].done

(* mutant: every result counted *)
successful_patches_All(rs) == Len(rs)

(* sum(1 for r in results if r is True) *)
successful_patches(rs) == Cardinality({f \in DOMAIN rs : rs[f].done /\ rs[f].value = TRUE})

(* patch_frames after process_map: the tally is printed *)
tally ==
    /\ pc = "process_map"
    /\ process_map_returns
    /\ reported' = <<successful_patches(results), Len(frame_files)>>
    /\ pc' = "assemble_video"
    /\ UNCHANGED <<cfg, files, orig, calls, exitCode, tools_found, input_is_file,
                   ffmpeg, n_jobs, frame_files, queue, worker, results, outputOk,
                   started, dispatchCount, access, batchSteps>>

(* assemble_video: skipped without frames; an encoder failure is caught    *)
(* and printed, and leaves no output                                       *)
assemble_video ==
    /\ pc = "assemble_video"
    /\ started' = started \cup {"assemble"}
    /\ IF Len(files) = 0
       THEN UNCHANGED outputOk
       ELSE \E encoded \in BOOLEAN : outputOk' = encoded
    /\ pc' = "final_check"
    /\ UNCHANGED <<cfg, files, orig, calls, exitCode, tools_found, input_is_file,
                   ffmpeg, n_jobs, frame_files, queue, worker, results, reported,
                   dispatchCount, access, batchSteps>>

(* the output test only prints; then the temporary directory is removed    *)
(* unless --keep-temp, and main returns                                    *)
final_check ==
    /\ pc = "final_check"
    /\ \E keep_temp \in BOOLEAN : files' = IF keep_temp THEN files ELSE <<>>
    /\ pc' = "exit"
    /\ exitCode' = 0
    /\ UNCHANGED <<cfg, orig, calls, tools_found, input_is_file, ffmpeg, n_jobs,
                   frame_files, queue, worker, results, reported, outputOk,
                   started, dispatchCount, access, batchSteps>>

Main ==
    \/ check_ffmpeg
    \/ check_input
    \/ extract_frames
    \/ extract_returns
    \/ get_fps
    \/ patch_frames
    \/ tally
    \/ assemble_video
    \/ final_check

Ffmpeg == ffmpeg_writes_frame \/ ffmpeg_exits

WorkerStep(w) == dispatch(w) \/ worker_imread(w) \/ worker_patch(w)

RunNext == Main \/ Ffmpeg \/ \E w \in Workers : WorkerStep(w)

RunSpec == RunInit /\ [][RunNext]_vars

(* ---------------------- claims about patch_frame ---------------------- *)
CallIds == 1..Len(calls)
Readable(c) == c.before.ok
FrameHeight(c) == c.before.height
FrameWidth(c) == c.before.width
InRect(R, r, c) == r > R.top /\ r <= R.bottom /\ c > R.left /\ c <= R.right

(* C1: after a successful patch the top mirror_height rows of the target  *)
(* are the pre-patch rows of the mirror source in reverse row order, and  *)
(* the remaining rows are the pre-patch rows of the adjacent source, same *)
(* columns, every channel.                                                *)
C1_TargetIsFlippedMirrorOverAdjacent ==
    \A i \in CallIds :
        calls[i].ret =>
            LET pre  == imread(calls[i].before)
                post == imread(calls[i].after)
                R    == calls[i].rects
            IN /\ \A r \in 1..cfg.mirror_height : \A c \in 1..cfg.patch_width :
                     post[R.target.top + r][R.target.left + c]
                        = pre[R.mirror.bottom + 1 - r][R.mirror.left + c]
               /\ \A r \in 1..(cfg.patch_height - cfg.mirror_height) :
                  \A c \in 1..cfg.patch_width :
                     post[R.target.top + cfg.mirror_height + r][R.target.left + c]
                        = pre[R.adjacent.top + r][R.adjacent.left + c]

C1_Witness ==
    \E i \in CallIds :
        calls[i].ret /\ cfg.mirror_height >= 2 /\ cfg.patch_width >= 2

(* C2 as stated: the bottom edge of the mirror source is mirror_offset    *)
(* rows above the top of the target, its top edge mirror_height above its *)
(* bottom, its columns the target's, and it never overlaps the target.    *)
C2_AsStated ==
    \A i \in CallIds :
        calls[i].ret =>
            LET R == calls[i].rects
            IN /\ R.mirror.bottom = R.target.top - cfg.mirror_offset
               /\ R.mirror.top = R.mirror.bottom - cfg.mirror_height
               /\ R.mirror.left = R.target.left
               /\ R.mirror.right = R.target.right
               /\ R.mirror.bottom <= R.target.top

(* C2 amended: the TOP edge of the mirror source is mirror_offset rows    *)
(* above the top of the target, its bottom edge mirror_height below its   *)
(* top, its columns the target's; it lies entirely above the target       *)
(* exactly when mirror_height <= mirror_offset.                           *)
C2_MirrorSourceStartsOffsetAbove ==
    \A i \in CallIds :
        calls[i].rects # NoRects =>
            LET R == calls[i].rects
            IN /\ R.mirror.top = R.target.top - cfg.mirror_offset
               /\ R.mirror.bottom = R.mirror.top + cfg.mirror_height
               /\ R.mirror.left = R.target.left
               /\ R.mirror.right = R.target.right
               /\ (R.mirror.bottom <= R.target.top)
                     <=> (cfg.mirror_height <= cfg.mirror_offset)

C2_Witness ==
    \E i \in CallIds :
        /\ calls[i].ret
        /\ cfg.mirror_height > cfg.mirror_offset
        /\ calls[i].rects.mirror.bottom > calls[i].rects.target.top

(* A configuration with positive sizes, offsets that are not negative and *)
(* a mirrored part strictly inside the patch height.                      *)
ValidConfig(p) ==
    /\ p.patch_width >= 1 /\ p.patch_height >= 1
    /\ p.patch_x >= 0 /\ p.patch_y >= 0
    /\ p.mirror_height >= 1 /\ p.mirror_height < p.patch_height
    /\ p.mirror_offset >= 0

RectHeight(R) == R.bottom - R.top
RectWidth(R) == R.right - R.left

GeometryShape(R) ==
    /\ RectHeight(R.mirror) + RectHeight(R.adjacent) = RectHeight(R.target)
    /\ RectHeight(R.target) = cfg.patch_height
    /\ RectWidth(R.target) = cfg.patch_width
    /\ RectWidth(R.mirror) = cfg.patch_width
    /\ RectWidth(R.adjacent) = cfg.patch_width

(* C3 as stated: a valid configuration and a frame with height >=         *)
(* patch_height and width >= patch_width + patch_x is never rejected and  *)
(* yields rectangles of the stated heights and widths.                    *)
C3_AsStated ==
    \A i \in CallIds :
        ( /\ ValidConfig(cfg) /\ Readable(calls[i])
          /\ FrameHeight(calls[i]) >= cfg.patch_height
          /\ FrameWidth(calls[i]) >= cfg.patch_width + cfg.patch_x )
        => (calls[i].ret /\ GeometryShape(calls[i].rects))

(* C3 amended: a valid configuration is not rejected exactly on frames    *)
(* with height >= patch_y + patch_height + mirror_offset and width >=     *)
(* patch_x + 2 * patch_width, and then the rectangles have the stated     *)
(* heights and widths.                                                    *)
C3_ResolvesWhenSourcesFit ==
    \A i \in CallIds :
        (ValidConfig(cfg) /\ Readable(calls[i])) =>
            IF /\ FrameHeight(calls[i])
                    >= cfg.patch_y + cfg.patch_height + cfg.mirror_offset
               /\ FrameWidth(calls[i]) >= cfg.patch_x + 2 * cfg.patch_width
            THEN calls[i].ret /\ GeometryShape(calls[i].rects)
            ELSE ~calls[i].ret

C3_Witness ==
    \E i \in CallIds :
        /\ ValidConfig(cfg) /\ Readable(calls[i])
        /\ cfg.mirror_offset >= 1 /\ cfg.patch_y >= 1 /\ cfg.patch_x >= 1
        /\ calls[i].ret

(* C4: patch_frame calls imwrite exactly when it returns True; every      *)
(* rejection (unreadable frame, frame too small, a rectangle out of       *)
(* bounds or empty) returns False and leaves the file as it was.          *)
C4_WritesIffReturnsTrue ==
    \A i \in CallIds :
        /\ calls[i].wrote <=> calls[i].ret
        /\ ~calls[i].ret => calls[i].after = calls[i].before
        /\ ~Readable(calls[i]) => ~calls[i].ret
        /\ ( /\ Readable(calls[i])
             /\ \/ TooSmall(cfg, FrameHeight(calls[i]), FrameWidth(calls[i]))
                \/ ~CoordsOK(cfg, FrameHeight(calls[i]), FrameWidth(calls[i])) )
           => ~calls[i].ret

C4_Witness ==
    \E i \in CallIds :
        /\ Readable(calls[i]) /\ ~calls[i].ret /\ calls[i].rects # NoRects
        /\ calls[i].after = calls[i].before

(* C9: a successful patch leaves every pixel outside the target rectangle *)
(* as it was, and the frame keeps its dimensions.                         *)
C9_OnlyTargetChanges ==
    \A i \in CallIds :
        calls[i].ret =>
            LET pre  == imread(calls[i].before)
                post == imread(calls[i].after)
                h    == FrameHeight(calls[i])
                T    == Rect(h - cfg.patch_y - cfg.patch_height, h - cfg.patch_y,
                             cfg.patch_x, cfg.patch_x + cfg.patch_width)
            IN /\ Shape0(post) = Shape0(pre) /\ Shape1(post) = Shape1(pre)
               /\ \A r \in 1..Shape0(pre) : \A c \in 1..Shape1(pre) :
                     ~InRect(T, r, c) => post[r][c] = pre[r][c]

C9_Witness ==
    \E i \in CallIds :
        /\ calls[i].ret
        /\ calls[i].after # calls[i].before
        /\ FrameHeight(calls[i]) > cfg.patch_y + cfg.patch_height + cfg.mirror_offset
        /\ FrameWidth(calls[i]) > cfg.patch_x + 2 * cfg.patch_width

(* C10: when a patch succeeds with mirror_height <= mirror_offset, the    *)
(* next patch with the same parameters succeeds too and leaves the file   *)
(* as the first patch left it.                                            *)
C10_IdempotentWhenMirrorAbove ==
    \A i \in CallIds :
        (i + 1 \in CallIds /\ calls[i].ret
            /\ cfg.mirror_height <= cfg.mirror_offset)
        => (calls[i + 1].ret /\ calls[i + 1].after = calls[i].after)

C10_Witness ==
    /\ Len(calls) >= 2
    /\ calls[1].ret /\ calls[2].ret
    /\ cfg.mirror_height <= cfg.mirror_offset
    /\ cfg.mirror_height >= 2
    /\ calls[1].after # calls[1].before

(* ------------------------- claims about a run ------------------------- *)
NFrames == Len(orig)
Busy(w) == worker[w].at # "idle"

(* the guards of dispatch, worker_imread and worker_patch *)
WorkerCanStep(w) == dispatch_ready(w) \/ worker[w].at \in {"imread", "patch"}

(* the frames patch_frame rejects, each taken alone *)
FailingFrames == {f \in 1..NFrames : ~patch_frame(cfg, orig[f]).ret}

(* main is between the return of patch_frames and the removal of tmpdir *)
BatchOver == pc \in {"assemble_video", "final_check"}

BatchOutcome ==
    /\ \A f \in 1..NFrames : results[f].done
    /\ reported = <<NFrames - Cardinality(FailingFrames), NFrames>>
    /\ \A f \in 1..NFrames :
          files[f] = IF f \in FailingFrames THEN orig[f]
                     ELSE patch_frame(cfg, orig[f]).file

(* C5 as stated: for every number N of frame files, N = 0 included, the   *)
(* batch processes every frame and reports N - |F| of N, every failed     *)
(* frame left as it was and every other frame patched.                    *)
C5_AsStated == BatchOver => BatchOutcome

(* C5 amended: for N >= 1 frame files of which the subset F fails, the    *)
(* batch processes every frame, ends, and reports N - |F| of N, every     *)
(* failed frame left as it was and every other frame patched; for N = 0   *)
(* it ends without reporting a tally.                                     *)
(* Ending is stated on finite runs: while process_map runs, a worker or  *)
(* the return of process_map can always take a step, and the workers     *)
(* take at most three steps per frame.                                   *)
C5_BatchTalliesEveryFrame ==
    /\ BatchOver => IF NFrames >= 1 THEN BatchOutcome ELSE reported = None
    /\ pc = "process_map" =>
          (process_map_returns \/ \E w \in Workers : WorkerCanStep(w))
    /\ batchSteps <= 3 * NFrames

C5_Witness ==
    /\ BatchOver
    /\ NFrames >= 3
    /\ Cardinality(FailingFrames) >= 2
    /\ \E f \in 1..NFrames : f \notin FailingFrames /\ files[f] # orig[f]
    /\ n_jobs >= 2

(* C6: a run ends with a non-zero exit code when the tools are missing,   *)
(* when the input file is missing, and when the output file is absent or  *)
(* empty at the end; in the first two cases no extraction, patching or    *)
(* assembly is started.                                                   *)
C6_NonZeroExitOnFailure ==
    pc = "exit" =>
        /\ (~tools_found \/ ~input_is_file) => (exitCode # 0 /\ started = {})
        /\ ~outputOk => exitCode # 0

(* C7: a worker works on a frame only after the extraction subprocess has *)
(* ended and extract_frames has returned, and assembly starts only after  *)
(* every task of the batch has returned.                                  *)
C7_PhasesAreBarriers ==
    /\ (\E w \in Workers : Busy(w)) =>
          (ffmpeg = "exit0" /\ pc = "process_map")
    /\ "patch" \in started => ffmpeg = "exit0"
    /\ "assemble" \in started =>
          /\ \A w \in Workers : ~Busy(w)
          /\ queue = <<>>
          /\ \A f \in DOMAIN results : results[f].done

C7_Witness ==
    /\ "assemble" \in started
    /\ Len(frame_files) >= 2
    /\ n_jobs >= 2
    /\ Cardinality(UNION {access[f] : f \in DOMAIN access}) >= 2

(* C8: each frame file becomes exactly one task, a worker holds one frame *)
(* at a time, no frame is held, read or written by two workers, and after *)
(* the batch each file holds what patch_frame alone makes of it, whatever *)
(* the interleaving.                                                      *)
C8_OneWorkerPerFrame ==
    /\ \A f \in DOMAIN dispatchCount :
          /\ dispatchCount[f] <= 1
          /\ Cardinality(access[f]) <= 1
          /\ Cardinality({w \in Workers : Busy(w) /\ worker[w].task = f}) <= 1
          /\ \A w \in Workers :
                (Busy(w) /\ worker[w].task = f) => access[f] \subseteq {w}
    /\ BatchOver =>
          \A f \in 1..NFrames :
             /\ dispatchCount[f] = 1
             /\ Cardinality(access[f]) = 1
             /\ files[f] = patch_frame(cfg, orig[f]).file

C8_Witness ==
    /\ BatchOver
    /\ NFrames >= 3
    /\ n_jobs >= 2
    /\ \E f, g \in 1..NFrames :
          /\ f < g /\ access[f] # access[g]
          /\ files[f] # orig[f] /\ files[g] # orig[g]

====
